---- MODULE Spec2Model ----
(***************************************************************************)
(* Model of the Alexa Smart Home Lambda bridge (python/lambda.py and       *)
(* python/appliances.py): version detection, directive routing, vendor     *)
(* command encoding, response envelopes and v2 -> v3 descriptor            *)
(* translation.                                                            *)
(*                                                                         *)
(* Conventions.                                                            *)
(*  - A JSON key that may be missing is an option: <<>> when the key is    *)
(*    absent, <<v>> when it is present with value v.  A Python subscript   *)
(*    of an absent key raises KeyError.                                    *)
(*  - A string that Python parses with int() is a sequence of character    *)
(*    codes (48..57 are the digits), so that the parse is computed.        *)
(*  - A handler is an operator that returns what one call does: its        *)
(*    outcome ("response", "none" for a Python None, or the exception      *)
(*    raised), the envelope returned, the vendor commands handed to        *)
(*    sparkDevice.JSONCommand before the call ended, and the number of     *)
(*    uuid4 draws it made.                                                 *)
(***************************************************************************)
EXTENDS Integers, Sequences, FiniteSets, TLC

(***************************************************************************)
(* The state: the module-level catalog list of appliances.py, the clock,   *)
(* the uuid4 draws made so far, and what the last invocation of            *)
(* lambda_handler was given and did.                                       *)
(***************************************************************************)
VARIABLES
    SAMPLE_APPLIANCES,  \* appliances.py:6, the list object the handlers read
    clock,              \* invocations so far; the reading of time.gmtime()
    uuidsDrawn,         \* uuid4 draws so far
    issued,             \* messageId of every response returned so far
    inRequest,          \* the request of the last invocation
    inConnected,        \* sparkDevice.connected during the last invocation
    version,            \* get_directive_version of the last request
    route,              \* the branch lambda_handler took
    outcome,            \* "response", "none" or the exception raised
    outResponse,        \* the envelope returned, as an option
    outSent,            \* commands handed to JSONCommand by the last invocation
    resolved,           \* particle_device, particle_node and particle_model of the
                        \* last non-discovery invocation, as an option
    trAppliance,        \* descriptor last given to the translator, as an option
    trEndpoint          \* its translation, as an option

vars == << SAMPLE_APPLIANCES, clock, uuidsDrawn, issued, inRequest, inConnected,
           version, route, outcome, outResponse, outSent, resolved, trAppliance,
           trEndpoint >>

(***************************************************************************)
(* Bounds of the model.                                                    *)
(***************************************************************************)
\* number of requests handled in one behaviour
MaxRequests == 2

(***************************************************************************)
(* config.py (imported at lambda.py:55 and appliances.py:1; the file is    *)
(* not part of the sources, its values are placeholders).                  *)
(***************************************************************************)
PARTICLE_DEVICE_ID == "particle-device-id"

\* "1"
PARTICLE_NODE_MAIN == <<49>>

\* "2"
PARTICLE_NODE_SECOND == <<50>>

\* "130"
PARTICLE_NODE_KM == <<49, 51, 48>>

PARTICLE_DEFAULT_MODEL == "Smart Light"

(***************************************************************************)
(* Options and subscripts.                                                 *)
(***************************************************************************)
Absent == <<>>

Some(v) == <<v>>

Has(o) == o # <<>>

Get(o) == o[1]

(***************************************************************************)
(* appliances.py: the catalog.                                             *)
(***************************************************************************)
\* "node_" + node
ApplianceId(node) == <<110, 111, 100, 101, 95>> \o node

SampleAppliancesLiteral ==
    << [ applianceId |-> ApplianceId(PARTICLE_NODE_KM),
         manufacturerName |-> "Xlight",
         modelName |-> "Smart Switch",
         version |-> "1",
         friendlyName |-> "Switch",
         friendlyDescription |-> "001 Switch that can only be turned on/off",
         isReachable |-> TRUE,
         actions |-> << "turnOn", "turnOff" >>,
         additionalApplianceDetails |->
             [ deviceId |-> PARTICLE_DEVICE_ID, nodeId |-> PARTICLE_NODE_KM ] ],
       [ applianceId |-> ApplianceId(PARTICLE_NODE_MAIN),
         manufacturerName |-> "Xlight",
         modelName |-> "Smart Light",
         version |-> "1",
         friendlyName |-> "Rainbow",
         friendlyDescription |->
             "002 Light (Rainbow) that is dimmable and can change color and color temperature",
         isReachable |-> TRUE,
         actions |-> << "turnOn", "turnOff", "setPercentage", "incrementPercentage",
                        "decrementPercentage", "setColor", "setColorTemperature",
                        "incrementColorTemperature", "decrementColorTemperature" >>,
         additionalApplianceDetails |->
             [ deviceId |-> PARTICLE_DEVICE_ID, nodeId |-> PARTICLE_NODE_KM ] ],
       [ applianceId |-> ApplianceId(PARTICLE_NODE_SECOND),
         manufacturerName |-> "Sample Manufacturer",
         modelName |-> "Smart White Light",
         version |-> "1",
         friendlyName |-> "Sunny",
         friendlyDescription |->
             "003 Light (Sunny) that is dimmable and can change color temperature only",
         isReachable |-> TRUE,
         actions |-> << "turnOn", "turnOff", "setPercentage", "incrementPercentage",
                        "decrementPercentage", "setColorTemperature",
                        "incrementColorTemperature", "decrementColorTemperature" >>,
         additionalApplianceDetails |->
             [ deviceId |-> PARTICLE_DEVICE_ID, nodeId |-> PARTICLE_NODE_KM ] ] >>

(***************************************************************************)
(* Python's int() on a string: an optional sign and one or more digits;    *)
(* anything else raises ValueError.                                        *)
(***************************************************************************)
IsDigit(c) == c \in 48..57

IntBody(s) == IF Len(s) > 0 /\ s[1] \in {43, 45} THEN Tail(s) ELSE s

IntParses(s) == /\ Len(IntBody(s)) > 0
                /\ \A i \in 1..Len(IntBody(s)) : IsDigit(IntBody(s)[i])

RECURSIVE DigitsValue(_)
DigitsValue(s) ==
    IF Len(s) = 0 THEN 0
    ELSE 10 * DigitsValue(SubSeq(s, 1, Len(s) - 1)) + (s[Len(s)] - 48)

IntOf(s) == IF Len(s) > 0 /\ s[1] = 45 THEN 0 - DigitsValue(IntBody(s))
            ELSE DigitsValue(IntBody(s))

(***************************************************************************)
(* The inbound request.  Fields d* are the leaves of request["directive"], *)
(* h* those of request["header"], p* those of request["payload"]; each is  *)
(* an option.                                                              *)
(*   dVersion           directive.header.payloadVersion                    *)
(*   dNamespace         directive.header.namespace                         *)
(*   dName              directive.header.name                              *)
(*   dCorrelationToken  directive.header.correlationToken                  *)
(*   dToken             directive.endpoint.scope.token                     *)
(*   dEndpointId        directive.endpoint.endpointId                      *)
(*   dCookieDeviceId    directive.endpoint.cookie.deviceId                 *)
(*   dCookieNodeId      directive.endpoint.cookie.nodeId                   *)
(*   dBrightness        directive.payload.brightness                       *)
(*   dBrightnessDelta   directive.payload.brightnessDelta                  *)
(*   dCct               directive.payload.colorTemperatureInKelvin         *)
(*   dColor             directive.payload.color                            *)
(*   hVersion           header.payloadVersion                              *)
(*   hNamespace         header.namespace                                   *)
(*   hName              header.name                                        *)
(*   pAccessToken       payload.accessToken                                *)
(*   pApplianceId       payload.appliance.applianceId                      *)
(*   pDeviceId          payload.appliance.additionalApplianceDetails.deviceId *)
(*   pNodeId            payload.appliance.additionalApplianceDetails.nodeId   *)
(*   pPercentage        payload.percentageState.value                      *)
(***************************************************************************)
EmptyRequest ==
    [ dVersion |-> Absent, dNamespace |-> Absent, dName |-> Absent,
      dCorrelationToken |-> Absent, dToken |-> Absent, dEndpointId |-> Absent,
      dCookieDeviceId |-> Absent, dCookieNodeId |-> Absent,
      dBrightness |-> Absent, dBrightnessDelta |-> Absent, dCct |-> Absent,
      dColor |-> Absent,
      hVersion |-> Absent, hNamespace |-> Absent, hName |-> Absent,
      pAccessToken |-> Absent, pApplianceId |-> Absent, pDeviceId |-> Absent,
      pNodeId |-> Absent, pPercentage |-> Absent ]

\* a version probe that looks at the v2 header location first
get_directive_version_v2_first(request) ==
    IF Has(request.hVersion) THEN Get(request.hVersion)
    ELSE IF Has(request.dVersion) THEN Get(request.dVersion)
    ELSE "-1"

(***************************************************************************)
(* lambda.py:489-496                                                       *)
(***************************************************************************)
get_directive_version(request) ==
    IF Has(request.dVersion) THEN Get(request.dVersion)
    ELSE IF Has(request.hVersion) THEN Get(request.hVersion)
    ELSE "-1"

(***************************************************************************)
(* lambda.py:188-192: the first appliance of the catalog with that id, as  *)
(* an option (Absent is Python's None).                                    *)
(***************************************************************************)
get_appliance_by_appliance_id(appliance_id) ==
    LET hits == { i \in 1..Len(SAMPLE_APPLIANCES) :
                    SAMPLE_APPLIANCES[i].applianceId = appliance_id }
    IN  IF hits = {} THEN Absent
        ELSE Some(SAMPLE_APPLIANCES[CHOOSE i \in hits : \A j \in hits : i <= j])

(***************************************************************************)
(* lambda.py:822-829                                                       *)
(***************************************************************************)
get_directive_deviceid(request) ==
    IF Has(request.dCookieDeviceId) THEN Get(request.dCookieDeviceId)
    ELSE IF Has(request.pDeviceId) THEN Get(request.pDeviceId)
    ELSE PARTICLE_DEVICE_ID

\* a node id chain that gives up at a cookie nodeId that is not a number
get_directive_nodeid_no_fall_through(request) ==
    IF Has(request.dCookieNodeId)
    THEN IF IntParses(Get(request.dCookieNodeId))
         THEN IntOf(Get(request.dCookieNodeId))
         ELSE IntOf(PARTICLE_NODE_MAIN)
    ELSE IF Has(request.pNodeId) /\ IntParses(Get(request.pNodeId))
    THEN IntOf(Get(request.pNodeId))
    ELSE IntOf(PARTICLE_NODE_MAIN)

(***************************************************************************)
(* lambda.py:832-839: int() of a missing key or of a string that is not a  *)
(* number raises, and the bare except moves on to the next source.         *)
(***************************************************************************)
get_directive_nodeid(request) ==
    IF Has(request.dCookieNodeId) /\ IntParses(Get(request.dCookieNodeId))
    THEN IntOf(Get(request.dCookieNodeId))
    ELSE IF Has(request.pNodeId) /\ IntParses(Get(request.pNodeId))
    THEN IntOf(Get(request.pNodeId))
    ELSE IntOf(PARTICLE_NODE_MAIN)

\* a model resolution that takes a request without an identifier as a failed lookup
get_directive_model_default_without_id(request) ==
    LET appliance ==
            IF Has(request.dEndpointId)
            THEN get_appliance_by_appliance_id(Get(request.dEndpointId))
            ELSE IF Has(request.pApplianceId)
            THEN get_appliance_by_appliance_id(Get(request.pApplianceId))
            ELSE Absent
    IN  IF appliance = Absent THEN PARTICLE_DEFAULT_MODEL
        ELSE Get(appliance).modelName

(***************************************************************************)
(* lambda.py:842-855                                                       *)
(***************************************************************************)
get_directive_model(request) ==
    LET appliance_id ==
            IF Has(request.dEndpointId) THEN Get(request.dEndpointId)
            ELSE IF Has(request.pApplianceId) THEN Get(request.pApplianceId)
            ELSE SAMPLE_APPLIANCES[1].applianceId
        appliance == get_appliance_by_appliance_id(appliance_id)
    IN  IF appliance = Absent THEN PARTICLE_DEFAULT_MODEL
        ELSE Get(appliance).modelName

(***************************************************************************)
(* lambda.py:506-517                                                       *)
(***************************************************************************)
get_display_categories_from_v2_appliance(appliance) ==
    LET model_name == appliance.modelName
    IN  IF model_name = "Smart Switch" THEN << "SWITCH" >>
        ELSE IF model_name = "Smart Light" THEN << "LIGHT" >>
        ELSE IF model_name = "Smart White Light" THEN << "LIGHT" >>
        ELSE IF model_name = "Smart Thermostat" THEN << "THERMOSTAT" >>
        ELSE IF model_name = "Smart Lock" THEN << "SMARTLOCK" >>
        ELSE IF model_name = "Smart Scene" THEN << "SCENE_TRIGGER" >>
        ELSE IF model_name = "Smart Activity" THEN << "ACTIVITY_TRIGGER" >>
        ELSE IF model_name = "Smart Camera" THEN << "CAMERA" >>
        ELSE << "OTHER" >>

(***************************************************************************)
(* The capability literal used throughout lambda.py:522-811: an            *)
(* AlexaInterface of version "3" with a list of supported property names,  *)
(* proactivelyReported and retrievable both True.                          *)
(***************************************************************************)
PropertyCapability(interface, names) ==
    [ type |-> "AlexaInterface",
      interface |-> interface,
      version |-> "3",
      properties |->
          [ supported |-> [ i \in 1..Len(names) |-> [ name |-> names[i] ] ],
            proactivelyReported |-> TRUE,
            retrievable |-> TRUE ] ]

\* lambda.py:749-755 and 759-765
SceneCapability(supportsDeactivation) ==
    [ type |-> "AlexaInterface",
      interface |-> "Alexa.SceneController",
      version |-> "3",
      supportsDeactivation |-> supportsDeactivation,
      proactivelyReported |-> TRUE ]

\* lambda.py:769-780
CameraCapability ==
    [ type |-> "AlexaInterface",
      interface |-> "Alexa.CameraStreamController",
      version |-> "3",
      cameraStreamConfigurations |->
          << [ protocols |-> << "RTSP" >>,
               resolutions |-> << [ width |-> 1280, height |-> 720 ] >>,
               authorizationTypes |-> << "NONE" >>,
               videoCodecs |-> << "H264" >>,
               audioCodecs |-> << "AAC" >> ] >> ]

\* lambda.py:522-767: the model names the capability table has a branch for
CapabilityModels ==
    { "Smart Switch", "Smart Light", "Smart White Light", "Smart Thermostat",
      "Smart Thermostat Dual", "Smart Lock", "Smart Scene", "Smart Activity",
      "Smart Camera" }

\* a capability table without the else branch: an unknown model gets nothing
ModelCapabilitiesNoFallback(model_name) ==
    IF model_name = "Smart Switch" THEN
        << PropertyCapability("Alexa.PowerController", << "powerState" >>) >>
    ELSE << >>

(***************************************************************************)
(* lambda.py:521-797: the model-specific capabilities.                     *)
(***************************************************************************)
ModelCapabilities(model_name) ==
    IF model_name = "Smart Switch" THEN
        << PropertyCapability("Alexa.PowerController", << "powerState" >>) >>
    ELSE IF model_name = "Smart Light" THEN
        << PropertyCapability("Alexa.PowerController", << "powerState" >>),
           PropertyCapability("Alexa.ColorController", << "color" >>),
           PropertyCapability("Alexa.ColorTemperatureController",
                              << "colorTemperatureInKelvin" >>),
           PropertyCapability("Alexa.BrightnessController", << "brightness" >>),
           PropertyCapability("Alexa.PowerLevelController", << "powerLevel" >>),
           PropertyCapability("Alexa.PercentageController", << "percentage" >>) >>
    ELSE IF model_name = "Smart White Light" THEN
        << PropertyCapability("Alexa.PowerController", << "powerState" >>),
           PropertyCapability("Alexa.ColorTemperatureController",
                              << "colorTemperatureInKelvin" >>),
           PropertyCapability("Alexa.BrightnessController", << "brightness" >>),
           PropertyCapability("Alexa.PowerLevelController", << "powerLevel" >>),
           PropertyCapability("Alexa.PercentageController", << "percentage" >>) >>
    ELSE IF model_name = "Smart Thermostat" THEN
        << PropertyCapability("Alexa.ThermostatController",
                              << "targetSetpoint", "thermostatMode" >>),
           PropertyCapability("Alexa.TemperatureSensor", << "temperature" >>) >>
    ELSE IF model_name = "Smart Thermostat Dual" THEN
        << PropertyCapability("Alexa.ThermostatController",
                              << "upperSetpoint", "lowerSetpoint", "thermostatMode" >>),
           PropertyCapability("Alexa.TemperatureSensor", << "temperature" >>) >>
    ELSE IF model_name = "Smart Lock" THEN
        << PropertyCapability("Alexa.LockController", << "lockState" >>) >>
    ELSE IF model_name = "Smart Scene" THEN
        << SceneCapability(FALSE) >>
    ELSE IF model_name = "Smart Activity" THEN
        << SceneCapability(TRUE) >>
    ELSE IF model_name = "Smart Camera" THEN
        << CameraCapability >>
    ELSE
        << PropertyCapability("Alexa.PowerController", << "powerState" >>) >>

\* lambda.py:800-811
endpoint_health_capability ==
    PropertyCapability("Alexa.EndpointHealth", << "connectivity" >>)

\* lambda.py:812-816
alexa_interface_capability ==
    [ type |-> "AlexaInterface", interface |-> "Alexa", version |-> "3" ]

\* a translation that appends to a list every earlier invocation appended to
get_capabilities_accumulating(appliance) ==
    ModelCapabilities(appliance.modelName)
        \o [ i \in 1..(2 * (clock + 1)) |->
               IF i % 2 = 1 THEN endpoint_health_capability
               ELSE alexa_interface_capability ]

\* a translation that appends the two universal capabilities in the other order
get_capabilities_swapped(appliance) ==
    Append(Append(ModelCapabilities(appliance.modelName),
                  alexa_interface_capability),
           endpoint_health_capability)

(***************************************************************************)
(* lambda.py:520-819                                                       *)
(***************************************************************************)
get_capabilities_from_v2_appliance(appliance) ==
    Append(Append(ModelCapabilities(appliance.modelName),
                  endpoint_health_capability),
           alexa_interface_capability)

(***************************************************************************)
(* lambda.py:474-486                                                       *)
(***************************************************************************)
get_endpoint_from_v2_appliance(appliance) ==
    [ endpointId |-> appliance.applianceId,
      manufacturerName |-> appliance.manufacturerName,
      friendlyName |-> appliance.friendlyName,
      description |-> appliance.friendlyDescription,
      displayCategories |-> get_display_categories_from_v2_appliance(appliance),
      cookie |-> appliance.additionalApplianceDetails,
      capabilities |-> get_capabilities_from_v2_appliance(appliance) ]

\* lambda.py:499-503
get_endpoint_by_endpoint_id(endpoint_id) ==
    LET appliance == get_appliance_by_appliance_id(endpoint_id)
    IN  IF appliance # Absent THEN Some(get_endpoint_from_v2_appliance(Get(appliance)))
        ELSE Absent

(***************************************************************************)
(* What one call of a handler does.                                        *)
(***************************************************************************)
Return(response, sent, draws) ==
    [ outcome |-> "response", response |-> Some(response), sent |-> sent,
      draws |-> draws ]

\* the handler falls off its end: Python returns None
ReturnNone(sent, draws) ==
    [ outcome |-> "none", response |-> Absent, sent |-> sent, draws |-> draws ]

\* the handler raises `error`; what it sent before is sent
Raise(error, sent, draws) ==
    [ outcome |-> error, response |-> Absent, sent |-> sent, draws |-> draws ]

(***************************************************************************)
(* lambda.py:195-196: time.strftime of time.gmtime(), the clock reading    *)
(* `now` in the fixed format.                                              *)
(***************************************************************************)
get_utc_timestamp(now) ==
    [ strftime |-> "%Y-%m-%dT%H:%M:%S.00Z", gmtime |-> now ]

(***************************************************************************)
(* lambda.py:199-200: str(uuid.uuid4()).  A uuid4 is 122 random bits; the  *)
(* n-th draw of a behaviour is modelled as a value no other draw gives.    *)
(***************************************************************************)
get_uuid(n) == "uuid4-" \o ToString(n)

(***************************************************************************)
(* sparkDevice.JSONCommand(json.dumps(cmd_obj)) (lambda.py:147-148 and     *)
(* alike): the device the command goes to and the JSON text, kept as the   *)
(* dict it encodes.                                                        *)
(***************************************************************************)
JSONCommand(sparkDevice, cmd_obj) == [ device |-> sparkDevice, json |-> cmd_obj ]

\* lambda.py:131-132 and 233-234: SparkCloud(access_token).devices[particle_device]
SparkDevice(access_token, particle_device) ==
    [ access_token |-> access_token, id |-> particle_device ]

\* a transport that is handed the command whatever the connected flag
SendAlways(connected, command) == << command >>

(***************************************************************************)
(* lambda.py:241-248 (and 141-148, 156-163, 285-289, 371-375, 416-421):    *)
(* the command is handed to JSONCommand when the device reports  *)
(* itself connected, and dropped otherwise.                                *)
(***************************************************************************)
SendIfConnected(connected, command) ==
    IF connected THEN << command >> ELSE << >>

\* a reading of the name that takes only TurnOff as off
power_state_off_only_for_turn_off(request_name) ==
    IF request_name = "TurnOff" THEN "OFF" ELSE "ON"

\* lambda.py:236-239
power_state(request_name) ==
    IF request_name = "TurnOn" THEN "ON" ELSE "OFF"

\* an encoder that sends every model the state command
power_cmd_obj_state_only(particle_model, particle_node, value) ==
    [ cmd |-> 1, nd |-> particle_node, state |-> IF value = "ON" THEN 1 ELSE 0 ]

(***************************************************************************)
(* lambda.py:243-246                                                       *)
(***************************************************************************)
power_cmd_obj(particle_model, particle_node, value) ==
    IF particle_model = "Smart Switch"
    THEN [ cmd |-> 8, nd |-> particle_node, msg |-> 1, ack |-> 1,
           tag |-> IF value = "ON" THEN 65 ELSE 66, pl |-> "1" ]
    ELSE [ cmd |-> 1, nd |-> particle_node,
           state |-> IF value = "ON" THEN 1 ELSE 0 ]

\* lambda.py:143-146
turn_on_cmd_obj(particle_model, particle_node) ==
    IF particle_model = "Smart Switch"
    THEN [ cmd |-> 8, nd |-> particle_node, msg |-> 1, ack |-> 1, tag |-> 65,
           pl |-> "1" ]
    ELSE [ cmd |-> 1, nd |-> particle_node, state |-> 1 ]

\* lambda.py:158-161
turn_off_cmd_obj(particle_model, particle_node) ==
    IF particle_model = "Smart Switch"
    THEN [ cmd |-> 8, nd |-> particle_node, msg |-> 1, ack |-> 1, tag |-> 66,
           pl |-> "1" ]
    ELSE [ cmd |-> 1, nd |-> particle_node, state |-> 0 ]

\* an encoder that rescales the percentage to 0..255
brightness_cmd_obj_scaled(particle_node, brightness) ==
    [ cmd |-> 3, nd |-> particle_node, value |-> (brightness * 255) \div 100 ]

\* lambda.py:174 and lambda.py:287
brightness_cmd_obj(particle_node, brightness) ==
    [ cmd |-> 3, nd |-> particle_node, value |-> brightness ]

\* lambda.py:373
cct_cmd_obj(particle_node, cct) ==
    [ cmd |-> 5, nd |-> particle_node, value |-> cct ]

\* lambda.py:412, 418-419: the ring of the stubbed colour [0, 255, 0, 0]
color_cmd_obj(particle_node) ==
    [ cmd |-> 2, nd |-> particle_node, ring |-> << 0, 1, 80 >> \o << 0, 255, 0, 0 >> ]

\* a relative adjustment that steps by 2000 K
color_temperature_wide_step(request_name, asked) ==
    IF request_name = "SetColorTemperature" THEN asked
    ELSE IF request_name = "DecreaseColorTemperature" THEN
        (IF 5000 - 2000 < 3000 THEN 3000 ELSE 5000 - 2000)
    ELSE IF request_name = "IncreaseColorTemperature" THEN
        (IF 5000 + 2000 > 6500 THEN 6500 ELSE 5000 + 2000)
    ELSE 5000

(***************************************************************************)
(* lambda.py:359-369: the colour temperature of a directive whose payload  *)
(* value, when the name reads it, is `asked`.                              *)
(***************************************************************************)
color_temperature(request_name, asked) ==
    IF request_name = "SetColorTemperature" THEN asked
    ELSE IF request_name = "DecreaseColorTemperature" THEN
        (IF 5000 - 200 < 3000 THEN 3000 ELSE 5000 - 200)
    ELSE IF request_name = "IncreaseColorTemperature" THEN
        (IF 5000 + 200 > 6500 THEN 6500 ELSE 5000 + 200)
    ELSE 5000

(***************************************************************************)
(* The v3 property response literal (lambda.py:250-279, 291-320, 325-354,  *)
(* 377-406, 423-452).  Python evaluates the literal in order: the          *)
(* timestamp, the uuid4 draw, then the two request subscripts, each of     *)
(* which raises KeyError when the key is missing.                          *)
(***************************************************************************)
\* a response builder that answers with a fixed correlation token
AlexaResponseFixedToken(namespace, name, value, request, now, drawn, sent) ==
    IF ~Has(request.dCorrelationToken) THEN Raise("KeyError", sent, 1)
    ELSE IF ~Has(request.dEndpointId) THEN Raise("KeyError", sent, 1)
    ELSE Return(
        [ context |->
            [ properties |->
                << [ namespace |-> namespace,
                     name |-> name,
                     value |-> value,
                     timeOfSample |-> get_utc_timestamp(now),
                     uncertaintyInMilliseconds |-> 500 ] >> ],
          event |->
            [ header |->
                [ namespace |-> "Alexa",
                  name |-> "Response",
                  payloadVersion |-> "3",
                  messageId |-> get_uuid(drawn + 1),
                  correlationToken |-> "correlation-A" ],
              endpoint |->
                [ scope |-> [ type |-> "BearerToken",
                              token |-> "access-token-from-Amazon" ],
                  endpointId |-> Get(request.dEndpointId) ],
              payload |-> "{}" ] ],
        sent, 1)

AlexaResponse(namespace, name, value, request, now, drawn, sent) ==
    IF ~Has(request.dCorrelationToken) THEN Raise("KeyError", sent, 1)
    ELSE IF ~Has(request.dEndpointId) THEN Raise("KeyError", sent, 1)
    ELSE Return(
        [ context |->
            [ properties |->
                << [ namespace |-> namespace,
                     name |-> name,
                     value |-> value,
                     timeOfSample |-> get_utc_timestamp(now),
                     uncertaintyInMilliseconds |-> 500 ] >> ],
          event |->
            [ header |->
                [ namespace |-> "Alexa",
                  name |-> "Response",
                  payloadVersion |-> "3",
                  messageId |-> get_uuid(drawn + 1),
                  correlationToken |-> Get(request.dCorrelationToken) ],
              endpoint |->
                [ scope |-> [ type |-> "BearerToken",
                              token |-> "access-token-from-Amazon" ],
                  endpointId |-> Get(request.dEndpointId) ],
              payload |-> "{}" ] ],
        sent, 1)

\* lambda.py:457-467
AcceptGrantResponse ==
    [ event |->
        [ header |->
            [ namespace |-> "Alexa.Authorization",
              name |-> "AcceptGrant.Response",
              payloadVersion |-> "3",
              messageId |-> "5f8a426e-01e4-4cc9-8b79-65f8bd0fd8a4" ],
          payload |-> "{}" ] ]

(***************************************************************************)
(* lambda.py:107-121                                                       *)
(***************************************************************************)
handle_discovery(drawn) ==
    Return([ header |-> [ namespace |-> "Alexa.ConnectedHome.Discovery",
                          name |-> "DiscoverAppliancesResponse",
                          payloadVersion |-> "2",
                          messageId |-> get_uuid(drawn + 1) ],
             payload |-> [ discoveredAppliances |-> SAMPLE_APPLIANCES ] ],
           << >>, 1)

\* the v2 header literal of lambda.py:135-140, 150-155, 165-170
ControlHeader(name, drawn) ==
    [ namespace |-> "Alexa.ConnectedHome.Control",
      name |-> name,
      payloadVersion |-> "2",
      messageId |-> get_uuid(drawn + 1) ]

(***************************************************************************)
(* lambda.py:124-184.  spark.devices[particle_device].connected is the     *)
(* transport's answer, `connected`.  A request name that matches no branch *)
(* leaves `header` unbound and line 181 raises UnboundLocalError.          *)
(***************************************************************************)
handle_non_discovery(request, connected, drawn) ==
    IF ~Has(request.hName) THEN Raise("KeyError", << >>, 0)
    ELSE IF ~Has(request.pAccessToken) THEN Raise("KeyError", << >>, 0)
    ELSE
      LET request_name == Get(request.hName)
          sparkDevice == SparkDevice(Get(request.pAccessToken),
                                     get_directive_deviceid(request))
          particle_node == get_directive_nodeid(request)
          particle_model == get_directive_model(request)
      IN  IF request_name = "TurnOnRequest" THEN
              Return([ header |-> ControlHeader("TurnOnConfirmation", drawn),
                       payload |-> "{}" ],
                     SendIfConnected(connected,
                          JSONCommand(sparkDevice,
                             turn_on_cmd_obj(particle_model, particle_node))),
                     1)
          ELSE IF request_name = "TurnOffRequest" THEN
              Return([ header |-> ControlHeader("TurnOffConfirmation", drawn),
                       payload |-> "{}" ],
                     SendIfConnected(connected,
                          JSONCommand(sparkDevice,
                             turn_off_cmd_obj(particle_model, particle_node))),
                     1)
          ELSE IF request_name = "SetPercentageRequest" THEN
              IF connected THEN
                  \* lambda.py:173 reads the percentage inside the connected branch
                  IF ~Has(request.pPercentage) THEN Raise("KeyError", << >>, 1)
                  ELSE Return([ header |-> ControlHeader("SetPercentageConfirmation",
                                                         drawn),
                                payload |-> "{}" ],
                              << JSONCommand(sparkDevice, brightness_cmd_obj(
                                     particle_node, Get(request.pPercentage))) >>,
                              1)
              ELSE Return([ header |-> ControlHeader("SetPercentageConfirmation", drawn),
                            payload |-> "{}" ],
                          << >>, 1)
          ELSE Raise("UnboundLocalError", << >>, 0)

\* a discovery that lists the endpoints last to first
handle_discovery_v3_reversed(request, drawn) ==
    Return([ event |->
               [ header |-> [ namespace |-> "Alexa.Discovery",
                              name |-> "Discover.Response",
                              payloadVersion |-> "3",
                              messageId |-> get_uuid(drawn + 1) ],
                 payload |->
                   [ endpoints |->
                       [ i \in 1..Len(SAMPLE_APPLIANCES) |->
                           get_endpoint_from_v2_appliance(
                               SAMPLE_APPLIANCES[Len(SAMPLE_APPLIANCES) + 1 - i]) ] ] ] ],
           << >>, 1)

(***************************************************************************)
(* lambda.py:204-222                                                       *)
(***************************************************************************)
handle_discovery_v3(request, drawn) ==
    Return([ event |->
               [ header |-> [ namespace |-> "Alexa.Discovery",
                              name |-> "Discover.Response",
                              payloadVersion |-> "3",
                              messageId |-> get_uuid(drawn + 1) ],
                 payload |->
                   [ endpoints |->
                       [ i \in 1..Len(SAMPLE_APPLIANCES) |->
                           get_endpoint_from_v2_appliance(SAMPLE_APPLIANCES[i]) ] ] ] ],
           << >>, 1)

(***************************************************************************)
(* lambda.py:225-470.  The command is sent before the response literal is  *)
(* evaluated, so a KeyError of the literal leaves the command sent.  A     *)
(* namespace or name that matches no branch reaches the end of the         *)
(* function, which returns None.                                           *)
(***************************************************************************)
handle_non_discovery_v3(request, connected, now, drawn) ==
    IF ~Has(request.dNamespace) THEN Raise("KeyError", << >>, 0)
    ELSE IF ~Has(request.dName) THEN Raise("KeyError", << >>, 0)
    ELSE IF ~Has(request.dToken) THEN Raise("KeyError", << >>, 0)
    ELSE
      LET request_namespace == Get(request.dNamespace)
          request_name == Get(request.dName)
          sparkDevice == SparkDevice(Get(request.dToken),
                                     get_directive_deviceid(request))
          particle_node == get_directive_nodeid(request)
          particle_model == get_directive_model(request)
      IN  IF request_namespace = "Alexa.PowerController" THEN
              LET value == power_state(request_name)
              IN  AlexaResponse("Alexa.PowerController", "powerState", value,
                      request, now, drawn,
                      SendIfConnected(connected,
                          JSONCommand(sparkDevice, power_cmd_obj(particle_model,
                                                        particle_node, value))))
          ELSE IF request_namespace = "Alexa.BrightnessController" THEN
              IF request_name = "SetBrightness" THEN
                  IF ~Has(request.dBrightness) THEN Raise("KeyError", << >>, 0)
                  ELSE AlexaResponse("Alexa.BrightnessController", "brightness",
                           Get(request.dBrightness), request, now, drawn,
                           SendIfConnected(connected,
                               JSONCommand(sparkDevice, brightness_cmd_obj(
                                   particle_node, Get(request.dBrightness)))))
              ELSE IF request_name = "AdjustBrightness" THEN
                  IF ~Has(request.dBrightnessDelta) THEN Raise("KeyError", << >>, 0)
                  ELSE AlexaResponse("Alexa.BrightnessController", "brightness",
                           Get(request.dBrightnessDelta), request, now, drawn, << >>)
              ELSE ReturnNone(<< >>, 0)
          ELSE IF request_namespace = "Alexa.ColorTemperatureController" THEN
              IF request_name = "SetColorTemperature" /\ ~Has(request.dCct)
              THEN Raise("KeyError", << >>, 0)
              ELSE
                LET cct == color_temperature(request_name,
                               IF Has(request.dCct) THEN Get(request.dCct) ELSE 5000)
                IN  AlexaResponse("Alexa.ColorTemperatureController",
                        "colorTemperatureInKelvin", cct, request, now, drawn,
                        SendIfConnected(connected,
                            JSONCommand(sparkDevice, cct_cmd_obj(particle_node, cct))))
          ELSE IF request_namespace = "Alexa.ColorController" THEN
              IF request_name = "SetColor" THEN
                  IF ~Has(request.dColor) THEN Raise("KeyError", << >>, 0)
                  ELSE AlexaResponse("Alexa.ColorController", "color",
                           Get(request.dColor), request, now, drawn,
                           SendIfConnected(connected,
                               JSONCommand(sparkDevice, color_cmd_obj(particle_node))))
              ELSE ReturnNone(<< >>, 0)
          ELSE IF request_namespace = "Alexa.Authorization" THEN
              IF request_name = "AcceptGrant"
              THEN Return(AcceptGrantResponse, << >>, 0)
              ELSE ReturnNone(<< >>, 0)
          ELSE ReturnNone(<< >>, 0)

(***************************************************************************)
(* validate_message(request, response) of validation.py (imported at       *)
(* lambda.py:51, not part of the sources): the schema check of a v3        *)
(* response, which raises when the response does not conform.  Its verdict *)
(* is an input, `valid`.                                                   *)
(***************************************************************************)
validate_message(result, valid) ==
    IF valid THEN result
    ELSE Raise("ValidationError", result.sent, result.draws)

(***************************************************************************)
(* lambda.py:77-91: the branch lambda_handler takes.  Reading the          *)
(* directive name (line 81) or the v2 namespace (line 88) of a request     *)
(* that lacks it raises KeyError.                                          *)
(***************************************************************************)
Route(request) ==
    IF get_directive_version(request) = "3" THEN
        IF ~Has(request.dName) THEN "KeyError"
        ELSE IF Get(request.dName) = "Discover" THEN "handle_discovery_v3"
        ELSE "handle_non_discovery_v3"
    ELSE
        IF ~Has(request.hNamespace) THEN "KeyError"
        ELSE IF Get(request.hNamespace) = "Alexa.ConnectedHome.Discovery"
        THEN "handle_discovery"
        ELSE "handle_non_discovery"

(***************************************************************************)
(* lambda.py:65-103.  The except clause re-raises, so an exception of a    *)
(* handler is the outcome of the invocation.                               *)
(***************************************************************************)
lambda_handler(req, conn, valid, now, n) ==
    LET r == Route(req)
        handled ==
            IF r = "handle_discovery_v3" THEN handle_discovery_v3(req, n)
            ELSE IF r = "handle_non_discovery_v3"
            THEN handle_non_discovery_v3(req, conn, now, n)
            ELSE IF r = "handle_discovery" THEN handle_discovery(n)
            ELSE IF r = "handle_non_discovery" THEN handle_non_discovery(req, conn, n)
            ELSE Raise("KeyError", << >>, 0)
    IN  IF get_directive_version(req) = "3" /\ handled.outcome \in {"response", "none"}
        THEN validate_message(handled, valid)
        ELSE handled

(***************************************************************************)
(* The requests the model hands to lambda_handler.                         *)
(***************************************************************************)
\* "x9": the id of no appliance of the catalog
UnknownId == <<120, 57>>

\* "7"
NodeSeven == <<55>>

\* "abc": not a number
NodeNotNumeric == <<97, 98, 99>>

SwitchId == ApplianceId(PARTICLE_NODE_KM)

LightId == ApplianceId(PARTICLE_NODE_MAIN)

WhiteLightId == ApplianceId(PARTICLE_NODE_SECOND)

V3Namespaces ==
    { "Alexa.PowerController", "Alexa.BrightnessController",
      "Alexa.ColorTemperatureController", "Alexa.ColorController",
      "Alexa.Authorization", "Alexa.ThermostatController" }

V3Names ==
    { "TurnOn", "TurnOff", "SetBrightness", "AdjustBrightness",
      "SetColorTemperature", "DecreaseColorTemperature",
      "IncreaseColorTemperature", "SetColor", "AcceptGrant", "Discover",
      "ReportState" }

SampleColor == [ hue |-> "350.5", saturation |-> "0.7138", brightness |-> "0.6524" ]

\* a v3 directive for `endpointId` whose payload carries what `name` reads
V3Directive(namespace, name, endpointId) ==
    [ EmptyRequest EXCEPT
        !.dVersion = Some("3"),
        !.dNamespace = Some(namespace),
        !.dName = Some(name),
        !.dCorrelationToken = Some("correlation-A"),
        !.dToken = Some("access-token-from-skill"),
        !.dEndpointId = Some(endpointId),
        !.dCookieDeviceId = Some(PARTICLE_DEVICE_ID),
        !.dCookieNodeId = Some(PARTICLE_NODE_KM),
        !.dBrightness = IF name = "SetBrightness" THEN Some(42) ELSE Absent,
        !.dBrightnessDelta = IF name = "AdjustBrightness" THEN Some(0 - 25) ELSE Absent,
        !.dCct = IF name = "SetColorTemperature" THEN Some(4000) ELSE Absent,
        !.dColor = IF name = "SetColor" THEN Some(SampleColor) ELSE Absent ]

\* every namespace with every name
V3Routing ==
    { V3Directive(ns, nm, LightId) : ns \in V3Namespaces, nm \in V3Names }

\* power directives over the endpoints and the node ids of the cookie
V3Power ==
    { [ V3Directive("Alexa.PowerController", nm, LightId) EXCEPT
          !.dEndpointId = e, !.dCookieNodeId = nd ] :
        nm \in { "TurnOn", "TurnOff" },
        e \in { Some(SwitchId), Some(LightId), Some(WhiteLightId),
                Some(UnknownId), Absent },
        nd \in { Some(PARTICLE_NODE_KM), Some(NodeSeven), Some(NodeNotNumeric),
                 Absent } }

BrightnessValues == { 0, 42, 100 }

CctValues == { 2000, 3000, 5000, 6500, 7000 }

V3Values ==
    { [ V3Directive("Alexa.BrightnessController", "SetBrightness", LightId) EXCEPT
          !.dBrightness = Some(b) ] : b \in BrightnessValues }
    \cup
    { [ V3Directive("Alexa.ColorTemperatureController", nm, WhiteLightId) EXCEPT
          !.dCct = Some(k) ] :
        nm \in { "SetColorTemperature", "DecreaseColorTemperature",
                 "IncreaseColorTemperature" },
        k \in CctValues }

V3Kinds ==
    { << "Alexa.PowerController", "TurnOn" >>,
      << "Alexa.BrightnessController", "SetBrightness" >>,
      << "Alexa.BrightnessController", "AdjustBrightness" >>,
      << "Alexa.ColorTemperatureController", "SetColorTemperature" >>,
      << "Alexa.ColorTemperatureController", "IncreaseColorTemperature" >>,
      << "Alexa.ColorController", "SetColor" >>,
      << "Alexa.Authorization", "AcceptGrant" >>,
      << "Alexa.Discovery", "Discover" >> }

\* one key missing, or another correlation token
V3Malformed ==
    UNION { LET d == V3Directive(k[1], k[2], LightId)
            IN  { [ d EXCEPT !.dCorrelationToken = Absent ],
                  [ d EXCEPT !.dCorrelationToken = Some("correlation-B") ],
                  [ d EXCEPT !.dToken = Absent ],
                  [ d EXCEPT !.dNamespace = Absent ],
                  [ d EXCEPT !.dName = Absent ],
                  [ d EXCEPT !.dBrightness = Absent, !.dBrightnessDelta = Absent,
                             !.dCct = Absent, !.dColor = Absent ],
                  [ d EXCEPT !.dCookieDeviceId = Absent ],
                  [ d EXCEPT !.hVersion = Some("2") ],
                  [ d EXCEPT !.dVersion = Absent ],
                  [ d EXCEPT !.dVersion = Some("2") ] }
          : k \in V3Kinds }

V2Names ==
    { "TurnOnRequest", "TurnOffRequest", "SetPercentageRequest",
      "IncrementPercentageRequest" }

\* a v2 control request for `applianceId`
V2Request(name, applianceId) ==
    [ EmptyRequest EXCEPT
        !.hVersion = Some("2"),
        !.hNamespace = Some("Alexa.ConnectedHome.Control"),
        !.hName = Some(name),
        !.pAccessToken = Some("access-token-from-skill"),
        !.pApplianceId = Some(applianceId),
        !.pDeviceId = Some(PARTICLE_DEVICE_ID),
        !.pNodeId = Some(PARTICLE_NODE_KM),
        !.pPercentage = IF name = "SetPercentageRequest" THEN Some(42) ELSE Absent ]

V2Control ==
    { [ V2Request(nm, LightId) EXCEPT !.pApplianceId = a, !.pNodeId = nd ] :
        nm \in V2Names,
        a \in { Some(SwitchId), Some(LightId), Some(UnknownId), Absent },
        nd \in { Some(PARTICLE_NODE_KM), Some(NodeSeven), Some(NodeNotNumeric),
                 Absent } }

V2Discovery ==
    [ EmptyRequest EXCEPT
        !.hVersion = Some("2"),
        !.hNamespace = Some("Alexa.ConnectedHome.Discovery"),
        !.hName = Some("DiscoverAppliancesRequest"),
        !.pAccessToken = Some("access-token-from-skill") ]

V2Malformed ==
    { V2Discovery,
      [ V2Discovery EXCEPT !.hVersion = Absent ],
      [ V2Discovery EXCEPT !.hVersion = Some("3") ],
      EmptyRequest }
    \cup
    UNION { LET q == V2Request(nm, LightId)
            IN  { [ q EXCEPT !.pAccessToken = Absent ],
                  [ q EXCEPT !.hName = Absent ],
                  [ q EXCEPT !.hNamespace = Absent ],
                  [ q EXCEPT !.hVersion = Absent ],
                  [ q EXCEPT !.pPercentage = Absent ],
                  [ q EXCEPT !.pPercentage = Some(100) ],
                  [ q EXCEPT !.pDeviceId = Absent ] }
          : nm \in V2Names }

\* "9"
NodeNine == <<57>>

\* a turn-on over the four places a device id and a node id can come from
Addressing ==
    { [ d EXCEPT !.dCookieDeviceId = cd, !.dCookieNodeId = cn,
                 !.pDeviceId = pd, !.pNodeId = pn ] :
        d \in { V3Directive("Alexa.PowerController", "TurnOn", LightId),
                V2Request("TurnOnRequest", LightId) },
        cd \in { Absent, Some("cookie-device") },
        cn \in { Absent, Some(NodeSeven), Some(NodeNotNumeric) },
        pd \in { Absent, Some("payload-device") },
        pn \in { Absent, Some(NodeNine), Some(NodeNotNumeric) } }

\* power directives for the switch under names that are neither TurnOn nor TurnOff
V3PowerOtherNames ==
    { V3Directive("Alexa.PowerController", nm, SwitchId) :
        nm \in { "ReportState", "SetColor", "turnOn", "" } }

Requests == V3Routing \cup V3Power \cup V3Values \cup V3Malformed
            \cup V2Control \cup V2Malformed \cup Addressing \cup V3PowerOtherNames

(***************************************************************************)
(* The state machine: one invocation of lambda_handler per step, one       *)
(* action per branch of lambda.py:79-91.                                   *)
(***************************************************************************)
NoInvocation == "not invoked"

Init ==
    /\ SAMPLE_APPLIANCES = SampleAppliancesLiteral
    /\ clock = 0
    /\ uuidsDrawn = 0
    /\ issued = << >>
    /\ inRequest = EmptyRequest
    /\ inConnected = FALSE
    /\ version = NoInvocation
    /\ route = NoInvocation
    /\ outcome = NoInvocation
    /\ outResponse = Absent
    /\ outSent = << >>
    /\ resolved = Absent
    /\ trAppliance = Absent
    /\ trEndpoint = Absent

(***************************************************************************)
(* lambda.py:127-129 and 229-231: the three locals a non-discovery handler *)
(* resolves once it has read the name and the access token.                *)
(***************************************************************************)
Resolved(request) ==
    IF \/ /\ Route(request) = "handle_non_discovery"
          /\ Has(request.hName) /\ Has(request.pAccessToken)
       \/ /\ Route(request) = "handle_non_discovery_v3"
          /\ Has(request.dNamespace) /\ Has(request.dName) /\ Has(request.dToken)
    THEN Some([ particle_device |-> get_directive_deviceid(request),
                particle_node |-> get_directive_nodeid(request),
                particle_model |-> get_directive_model(request) ])
    ELSE Absent

\* the message id of an envelope of either protocol version
MessageId(envelope) ==
    IF "event" \in DOMAIN envelope THEN envelope.event.header.messageId
    ELSE envelope.header.messageId

\* lambda_handler(req, context), with the transport's and the validator's answers
Invoke(req, conn, valid) ==
    /\ clock < MaxRequests
    /\ \E result \in { lambda_handler(req, conn, valid, clock, uuidsDrawn) } :
        /\ clock' = clock + 1
        /\ uuidsDrawn' = uuidsDrawn + result.draws
        /\ issued' = IF result.outcome = "response"
                     THEN Append(issued, MessageId(Get(result.response)))
                     ELSE issued
        /\ inRequest' = req
        /\ inConnected' = conn
        /\ version' = get_directive_version(req)
        /\ route' = Route(req)
        /\ outcome' = result.outcome
        /\ outResponse' = result.response
        /\ outSent' = result.sent
        /\ resolved' = Resolved(req)
        /\ UNCHANGED << SAMPLE_APPLIANCES, trAppliance, trEndpoint >>

RoutedTo(r) == { req \in Requests : Route(req) = r }

RequestsDiscoveryV3 == RoutedTo("handle_discovery_v3")

RequestsNonDiscoveryV3 == RoutedTo("handle_non_discovery_v3")

RequestsDiscoveryV2 == RoutedTo("handle_discovery")

RequestsNonDiscoveryV2 == RoutedTo("handle_non_discovery")

RequestsUnroutable == RoutedTo("KeyError")

DiscoveryV3 ==
    \E req \in RequestsDiscoveryV3, valid \in BOOLEAN :
        /\ Route(req) = "handle_discovery_v3"
        /\ Invoke(req, FALSE, valid)

NonDiscoveryV3 ==
    \E req \in RequestsNonDiscoveryV3, conn \in BOOLEAN, valid \in BOOLEAN :
        /\ Route(req) = "handle_non_discovery_v3"
        /\ Invoke(req, conn, valid)

DiscoveryV2 ==
    \E req \in RequestsDiscoveryV2 :
        /\ Route(req) = "handle_discovery"
        /\ Invoke(req, FALSE, TRUE)

NonDiscoveryV2 ==
    \E req \in RequestsNonDiscoveryV2, conn \in BOOLEAN :
        /\ Route(req) = "handle_non_discovery"
        /\ Invoke(req, conn, TRUE)

\* lambda.py:81 or lambda.py:88 raises KeyError
Unroutable ==
    \E req \in RequestsUnroutable :
        /\ Route(req) = "KeyError"
        /\ Invoke(req, FALSE, TRUE)

Next ==
    \/ DiscoveryV3
    \/ NonDiscoveryV3
    \/ DiscoveryV2
    \/ NonDiscoveryV2
    \/ Unroutable

Spec == Init /\ [][Next]_vars

(***************************************************************************)
(* The descriptor translator on its own: get_endpoint_from_v2_appliance    *)
(* applied to descriptors of every model name, known and unknown.          *)
(***************************************************************************)
ModelNames ==
    { "Smart Switch", "Smart Light", "Smart White Light", "Smart Thermostat",
      "Smart Thermostat Dual", "Smart Lock", "Smart Scene", "Smart Activity",
      "Smart Camera", "Smart Toaster", "smart switch", "" }

Descriptors ==
    { [ applianceId |-> id,
        manufacturerName |-> "Xlight",
        modelName |-> m,
        version |-> "1",
        friendlyName |-> "Device",
        friendlyDescription |-> "A device",
        isReachable |-> reachable,
        actions |-> << "turnOn", "turnOff" >>,
        additionalApplianceDetails |->
            [ deviceId |-> PARTICLE_DEVICE_ID, nodeId |-> nd ] ] :
      id \in { SwitchId, LightId, UnknownId },
      m \in ModelNames,
      reachable \in BOOLEAN,
      nd \in { PARTICLE_NODE_KM, NodeNotNumeric } }

Translate ==
    \E d \in Descriptors :
        /\ trAppliance' = Some(d)
        /\ trEndpoint' = Some(get_endpoint_from_v2_appliance(d))
        /\ UNCHANGED << SAMPLE_APPLIANCES, clock, uuidsDrawn, issued, inRequest,
                        inConnected, version, route, outcome, outResponse, outSent,
                        resolved >>

NextTranslate == Translate

SpecTranslate == Init /\ [][NextTranslate]_vars

(***************************************************************************)
(* Properties.                                                             *)
(***************************************************************************)
Invoked == outcome # NoInvocation

Responded == outcome = "response"

\* C1: every request handled by lambda_handler gets a response envelope: the
\* invocation neither returns None nor raises for an unset variable or a
\* missing key.  (A failure of the external schema validation is left out of
\* the statement.)
C1_EveryRequestIsAnswered ==
    Invoked => outcome \in { "response", "ValidationError" }

\* C2, as claimed: every response returned by handle_non_discovery_v3, the
\* AcceptGrant response included, carries the correlationToken of the
\* inbound directive header.
C2_EveryV3ResponseEchoesToken ==
    (route = "handle_non_discovery_v3" /\ Responded) =>
        LET header == Get(outResponse).event.header
        IN  Has(inRequest.dCorrelationToken) =>
                /\ "correlationToken" \in DOMAIN header
                /\ header.correlationToken = Get(inRequest.dCorrelationToken)

\* C2, amended: every response of handle_non_discovery_v3 to a power,
\* brightness, colour-temperature or colour directive carries the inbound
\* correlationToken; the AcceptGrant.Response carries no correlationToken.
C2_PropertyResponsesEchoToken ==
    (route = "handle_non_discovery_v3" /\ Responded) =>
        LET header == Get(outResponse).event.header
        IN  IF Get(inRequest.dNamespace) = "Alexa.Authorization"
            THEN "correlationToken" \notin DOMAIN header
            ELSE /\ "correlationToken" \in DOMAIN header
                 /\ Has(inRequest.dCorrelationToken)
                 /\ header.correlationToken = Get(inRequest.dCorrelationToken)

\* a colour directive carrying the second token was answered with it
C2_Witness ==
    /\ route = "handle_non_discovery_v3"
    /\ Responded
    /\ inRequest.dNamespace = Some("Alexa.ColorController")
    /\ inRequest.dCorrelationToken = Some("correlation-B")
    /\ Get(outResponse).event.header.correlationToken = "correlation-B"

\* C3: no two responses returned so far carry the same messageId.
C3_MessageIdsAreUnique ==
    \A i, j \in 1..Len(issued) : i # j => issued[i] # issued[j]

\* the last invocation went to one of the two non-discovery handlers
NonDiscovery == route \in { "handle_non_discovery", "handle_non_discovery_v3" }

\* the envelope with its message id blanked
WithoutMessageId(envelope) ==
    IF "event" \in DOMAIN envelope
    THEN [ envelope EXCEPT !.event.header.messageId = "" ]
    ELSE [ envelope EXCEPT !.header.messageId = "" ]

\* what the last invocation would have done had the connected flag been the
\* other way round (same clock reading)
WithOtherFlag == lambda_handler(inRequest, ~inConnected, TRUE, clock - 1, 0)

\* the v3 directives that are answered without any vendor command
AnsweredWithoutCommand ==
    /\ route = "handle_non_discovery_v3"
    /\ \/ /\ inRequest.dNamespace = Some("Alexa.BrightnessController")
          /\ inRequest.dName = Some("AdjustBrightness")
       \/ /\ inRequest.dNamespace = Some("Alexa.Authorization")
          /\ inRequest.dName = Some("AcceptGrant")

\* a v2 SetPercentageRequest without payload.percentageState.value
PercentageMissing ==
    /\ route = "handle_non_discovery"
    /\ inRequest.hName = Some("SetPercentageRequest")
    /\ ~Has(inRequest.pPercentage)

IsTurn(on) ==
    \/ /\ route = "handle_non_discovery_v3"
       /\ inRequest.dNamespace = Some("Alexa.PowerController")
       /\ inRequest.dName = Some(IF on THEN "TurnOn" ELSE "TurnOff")
       /\ Has(inRequest.dToken)
    \/ /\ route = "handle_non_discovery"
       /\ inRequest.hName = Some(IF on THEN "TurnOnRequest" ELSE "TurnOffRequest")
       /\ Has(inRequest.pAccessToken)

\* the command C5 expects for a turn-on (TRUE) or turn-off (FALSE)
IsTurnCommand(c, on) ==
    /\ c.nd = get_directive_nodeid(inRequest)
    /\ IF get_directive_model(inRequest) = "Smart Switch"
       THEN /\ DOMAIN c = { "cmd", "nd", "msg", "ack", "tag", "pl" }
            /\ c.cmd = 8 /\ c.msg = 1 /\ c.ack = 1
            /\ c.tag = IF on THEN 65 ELSE 66
       ELSE /\ DOMAIN c = { "cmd", "nd", "state" }
            /\ c.cmd = 1
            /\ c.state = IF on THEN 1 ELSE 0

\* C5: a turn-on or turn-off of either protocol version, sent to a connected
\* device, hands the transport the tagged message (cmd 8, msg 1, ack 1, tag
\* 65 / 66) when the resolved model is "Smart Switch" and the state command
\* (cmd 1, state 1 / 0) otherwise, with nd the resolved node id.
C5_TurnOnOffEncoding ==
    \A on \in BOOLEAN :
        (IsTurn(on) /\ inConnected) =>
            /\ Len(outSent) = 1
            /\ IsTurnCommand(outSent[1].json, on)

\* a v3 TurnOff reached the connected Smart Switch as tag 66 on node 7
C5_Witness ==
    /\ IsTurn(FALSE)
    /\ route = "handle_non_discovery_v3"
    /\ inConnected
    /\ inRequest.dEndpointId = Some(SwitchId)
    /\ Len(outSent) = 1
    /\ outSent[1].json.cmd = 8
    /\ outSent[1].json.tag = 66
    /\ outSent[1].json.nd = 7

\* the last request is a v3 colour-temperature directive of one of `names`
IsColorTemperature(names) ==
    /\ route = "handle_non_discovery_v3"
    /\ inRequest.dNamespace = Some("Alexa.ColorTemperatureController")
    /\ Get(inRequest.dName) \in names

\* every colour temperature the last invocation sent or reported is in S
ColorTemperaturesIn(S) ==
    /\ \A i \in 1..Len(outSent) : outSent[i].json.cmd = 5 /\ outSent[i].json.value \in S
    /\ Responded => Get(outResponse).context.properties[1].value \in S

\* C6: for every colour-temperature directive that is answered, the value of
\* the cmd 5 command and the colorTemperatureInKelvin reported lie in
\* 3000..6500, whatever the payload asks for.
C6_ColorTemperatureClamped ==
    (/\ IsColorTemperature({ "SetColorTemperature", "IncreaseColorTemperature",
                             "DecreaseColorTemperature" })
     /\ Responded)
        => ColorTemperaturesIn(3000..6500)

\* C7: a DecreaseColorTemperature yields 4800 K and an
\* IncreaseColorTemperature 5200 K, in the command sent and in the response,
\* at every position of a sequence of requests; none is outside 3000..6500.
C7_RelativeColorTemperature ==
    /\ IsColorTemperature({ "DecreaseColorTemperature" }) => ColorTemperaturesIn({ 4800 })
    /\ IsColorTemperature({ "IncreaseColorTemperature" }) => ColorTemperaturesIn({ 5200 })
    /\ IsColorTemperature({ "DecreaseColorTemperature", "IncreaseColorTemperature" })
          => ColorTemperaturesIn(3000..6500)

\* the second request of a behaviour is a decrease, sent and answered as 4800 K
C7_Witness ==
    /\ IsColorTemperature({ "DecreaseColorTemperature" })
    /\ clock = 2
    /\ Len(issued) = 2
    /\ Responded
    /\ Len(outSent) = 1
    /\ outSent[1].json.value = 4800
    /\ Get(outResponse).context.properties[1].value = 4800

\* the last request is a v3 SetBrightness that carries a brightness
IsSetBrightness ==
    /\ route = "handle_non_discovery_v3"
    /\ inRequest.dNamespace = Some("Alexa.BrightnessController")
    /\ inRequest.dName = Some("SetBrightness")
    /\ Has(inRequest.dToken)
    /\ Has(inRequest.dBrightness)

\* C8: a v3 SetBrightness with brightness b in 0..100 sends a connected
\* device cmd 3 with value b, and the response reports brightness b whether
\* the device is connected or not.
C8_BrightnessRoundTrip ==
    (IsSetBrightness /\ Get(inRequest.dBrightness) \in 0..100) =>
        LET b == Get(inRequest.dBrightness)
        IN  /\ inConnected =>
                /\ Len(outSent) = 1
                /\ outSent[1].json.cmd = 3
                /\ outSent[1].json.value = b
                /\ outSent[1].json.nd = get_directive_nodeid(inRequest)
            /\ ~inConnected => outSent = << >>
            /\ Responded =>
                LET p == Get(outResponse).context.properties
                IN  /\ Len(p) = 1
                    /\ p[1].namespace = "Alexa.BrightnessController"
                    /\ p[1].name = "brightness"
                    /\ p[1].value = b

\* brightness 100 was answered as 100 although the device is not connected
C8_Witness ==
    /\ IsSetBrightness
    /\ inRequest.dBrightness = Some(100)
    /\ ~inConnected
    /\ Responded
    /\ Get(outResponse).context.properties[1].value = 100

\* C9: get_directive_version is the payloadVersion at directive.header when
\* there is one, else the one at header when there is one, else "-1"; a
\* request with both reports the one at directive.header.
C9_VersionDetection ==
    Invoked =>
        /\ Has(inRequest.dVersion) => version = Get(inRequest.dVersion)
        /\ (~Has(inRequest.dVersion) /\ Has(inRequest.hVersion))
              => version = Get(inRequest.hVersion)
        /\ (~Has(inRequest.dVersion) /\ ~Has(inRequest.hVersion)) => version = "-1"

\* a request with "3" at directive.header and "2" at header was taken as v3
C9_Witness ==
    /\ Invoked
    /\ inRequest.dVersion = Some("3")
    /\ inRequest.hVersion = Some("2")
    /\ version = "3"
    /\ route = "handle_non_discovery_v3"

\* C10: whatever the modelName, the capability list of the translated
\* endpoint ends with the Alexa.EndpointHealth capability followed by the
\* bare Alexa capability, after at least one model-specific capability.
C10_UniversalCapabilitiesLast ==
    Has(trEndpoint) =>
        LET caps == Get(trEndpoint).capabilities
            n == Len(caps)
        IN  /\ n >= 3
            /\ caps[n - 1].interface = "Alexa.EndpointHealth"
            /\ caps[n - 1].properties.supported = << [ name |-> "connectivity" ] >>
            /\ caps[n].interface = "Alexa"
            /\ DOMAIN caps[n] = { "type", "interface", "version" }
            /\ \A i \in 1..(n - 2) :
                   caps[i].interface \notin { "Alexa.EndpointHealth", "Alexa" }

\* a descriptor of an unknown model was translated
C10_Witness ==
    /\ Has(trEndpoint)
    /\ Get(trAppliance).modelName = "Smart Toaster"
    /\ Len(Get(trEndpoint).capabilities) = 3

\* C11: a descriptor whose modelName no table knows is translated, to an
\* endpoint whose capabilities are the Alexa.PowerController capability, the
\* Alexa.EndpointHealth capability and the bare Alexa capability, in that
\* order, and whose displayCategories is ["OTHER"].
C11_UnknownModelFallback ==
    (Has(trEndpoint) /\ Get(trAppliance).modelName \notin CapabilityModels) =>
        LET e == Get(trEndpoint)
        IN  /\ e.endpointId = Get(trAppliance).applianceId
            /\ e.cookie = Get(trAppliance).additionalApplianceDetails
            /\ e.displayCategories = << "OTHER" >>
            /\ e.capabilities =
                 << [ type |-> "AlexaInterface",
                      interface |-> "Alexa.PowerController",
                      version |-> "3",
                      properties |->
                          [ supported |-> << [ name |-> "powerState" ] >>,
                            proactivelyReported |-> TRUE,
                            retrievable |-> TRUE ] ],
                    [ type |-> "AlexaInterface",
                      interface |-> "Alexa.EndpointHealth",
                      version |-> "3",
                      properties |->
                          [ supported |-> << [ name |-> "connectivity" ] >>,
                            proactivelyReported |-> TRUE,
                            retrievable |-> TRUE ] ],
                    [ type |-> "AlexaInterface",
                      interface |-> "Alexa",
                      version |-> "3" ] >>

\* a descriptor with the empty model name was translated to category OTHER
C11_Witness ==
    /\ Has(trEndpoint)
    /\ Get(trAppliance).modelName = ""
    /\ Get(trEndpoint).displayCategories = << "OTHER" >>
    /\ Len(Get(trEndpoint).capabilities) = 3

\* the last invocation answered a discovery of either protocol version
IsDiscoveryResponse ==
    /\ route \in { "handle_discovery", "handle_discovery_v3" }
    /\ Responded

\* the entries a discovery response lists
DiscoveryEntries ==
    IF route = "handle_discovery_v3"
    THEN Get(outResponse).event.payload.endpoints
    ELSE Get(outResponse).payload.discoveredAppliances

\* the catalog passed through the translation, in catalog order
TranslatedCatalog ==
    [ i \in 1..Len(SAMPLE_APPLIANCES) |->
        get_endpoint_from_v2_appliance(SAMPLE_APPLIANCES[i]) ]

\* C12, as claimed: a discovery response of either protocol version lists the
\* catalog's appliances in catalog order, each passed through
\* get_endpoint_from_v2_appliance.
C12_DiscoveryListsTranslatedCatalog ==
    IsDiscoveryResponse =>
        /\ Len(DiscoveryEntries) = Len(SAMPLE_APPLIANCES)
        /\ DiscoveryEntries = TranslatedCatalog

\* C12, amended: a discovery response of either protocol version has one
\* entry per appliance of the catalog, in catalog order, three in every
\* discovery of a sequence; a v3 entry is the appliance passed through
\* get_endpoint_from_v2_appliance, a v2 entry is the catalog's descriptor
\* itself, untranslated.
C12_DiscoveryListsCatalog ==
    IsDiscoveryResponse =>
        /\ Len(DiscoveryEntries) = 3
        /\ Len(DiscoveryEntries) = Len(SAMPLE_APPLIANCES)
        /\ IF route = "handle_discovery_v3"
           THEN /\ DiscoveryEntries = TranslatedCatalog
                /\ \A i \in 1..Len(SAMPLE_APPLIANCES) :
                       /\ DiscoveryEntries[i].endpointId = SAMPLE_APPLIANCES[i].applianceId
                       /\ DiscoveryEntries[i].friendlyName
                            = SAMPLE_APPLIANCES[i].friendlyName
           ELSE DiscoveryEntries = SAMPLE_APPLIANCES

\* the second request of a behaviour is a v3 discovery, answered with the
\* switch, the light and the white light in that order
C12_Witness ==
    /\ IsDiscoveryResponse
    /\ route = "handle_discovery_v3"
    /\ clock = 2
    /\ Len(issued) = 2
    /\ DiscoveryEntries[1].endpointId = SwitchId
    /\ DiscoveryEntries[2].endpointId = LightId
    /\ DiscoveryEntries[3].endpointId = WhiteLightId

\* C13: for every modelName, displayCategories has exactly one entry, and
\* that entry is "OTHER" exactly when the capability table has no branch for
\* the model.
C13_TablesAgreeOnKnownModels ==
    Has(trEndpoint) =>
        LET categories == Get(trEndpoint).displayCategories
        IN  /\ Len(categories) = 1
            /\ categories[1] = "OTHER"
                 <=> Get(trAppliance).modelName \notin CapabilityModels

\* the endpoint or appliance identifier the last request carries, if any
CarriedId ==
    IF Has(inRequest.dEndpointId) THEN inRequest.dEndpointId
    ELSE inRequest.pApplianceId

\* the model name the catalog gives for an identifier, if it gives one
CatalogModel(id) ==
    IF id = SwitchId THEN Some("Smart Switch")
    ELSE IF id = LightId THEN Some("Smart Light")
    ELSE IF id = WhiteLightId THEN Some("Smart White Light")
    ELSE Absent

\* C14, as claimed: for every non-discovery directive the model name is the
\* modelName of the catalog's descriptor for the identifier of the request,
\* and PARTICLE_DEFAULT_MODEL whenever there is no such descriptor, a request
\* that carries no identifier included.
C14_DefaultModelWhenNoDescriptor ==
    Has(resolved) =>
        Get(resolved).particle_model =
            IF Has(CarriedId) /\ Has(CatalogModel(Get(CarriedId)))
            THEN Get(CatalogModel(Get(CarriedId)))
            ELSE PARTICLE_DEFAULT_MODEL

\* C14, amended: for every non-discovery directive the model name is resolved
\* without raising; it is the modelName of the catalog's descriptor for the
\* identifier of the request, PARTICLE_DEFAULT_MODEL when the request carries
\* an identifier the catalog has no descriptor for, and the modelName of the
\* catalog's first appliance ("Smart Switch") when the request carries no
\* endpoint or appliance identifier at all.
C14_ModelResolution ==
    /\ (/\ route \in { "handle_non_discovery", "handle_non_discovery_v3" }
        /\ outcome \notin { "KeyError", "UnboundLocalError" })
           => Has(resolved)
    /\ Has(resolved) =>
        Get(resolved).particle_model =
            IF ~Has(CarriedId) THEN "Smart Switch"
            ELSE IF Has(CatalogModel(Get(CarriedId)))
            THEN Get(CatalogModel(Get(CarriedId)))
            ELSE PARTICLE_DEFAULT_MODEL

\* a turn-on without any identifier reached a connected device as a command
\* for a switch
C14_Witness ==
    /\ Has(resolved)
    /\ ~Has(CarriedId)
    /\ Get(resolved).particle_model = "Smart Switch"
    /\ Responded
    /\ Len(outSent) = 1

\* the number a node id string of the requests stands for, if it is one
NodeValue(nodeId) ==
    IF nodeId = Some(NodeSeven) THEN Some(7)
    ELSE IF nodeId = Some(NodeNine) THEN Some(9)
    ELSE IF nodeId = Some(PARTICLE_NODE_KM) THEN Some(130)
    ELSE Absent

\* C15: the device id is the cookie's deviceId if present, else the payload
\* appliance's additionalApplianceDetails deviceId if present, else
\* PARTICLE_DEVICE_ID; the node id is the cookie's nodeId if present and
\* numeric, else the payload appliance's nodeId if present and numeric, else
\* PARTICLE_NODE_MAIN as a number; each is resolved whatever the other finds.
C15_IndependentFallbackChains ==
    Has(resolved) =>
        /\ Get(resolved).particle_device =
             IF Has(inRequest.dCookieDeviceId) THEN Get(inRequest.dCookieDeviceId)
             ELSE IF Has(inRequest.pDeviceId) THEN Get(inRequest.pDeviceId)
             ELSE "particle-device-id"
        /\ Get(resolved).particle_node =
             IF Has(NodeValue(inRequest.dCookieNodeId))
             THEN Get(NodeValue(inRequest.dCookieNodeId))
             ELSE IF Has(NodeValue(inRequest.pNodeId))
             THEN Get(NodeValue(inRequest.pNodeId))
             ELSE 1

\* the cookie gave the device id although its nodeId is not a number, and the
\* node id came from the payload
C15_Witness ==
    /\ Has(resolved)
    /\ inRequest.dCookieDeviceId = Some("cookie-device")
    /\ inRequest.dCookieNodeId = Some(NodeNotNumeric)
    /\ inRequest.pDeviceId = Some("payload-device")
    /\ inRequest.pNodeId = Some(NodeNine)
    /\ Get(resolved).particle_device = "cookie-device"
    /\ Get(resolved).particle_node = 9
    /\ Responded

\* an envelope with its message id and its timestamps blanked
Scrub(envelope) ==
    IF "event" \in DOMAIN envelope
    THEN LET e == [ envelope EXCEPT !.event.header.messageId = "" ]
         IN  IF "context" \in DOMAIN e
             THEN [ e EXCEPT !.context.properties =
                        [ i \in DOMAIN @ |-> [ @[i] EXCEPT !.timeOfSample = "" ] ] ]
             ELSE e
    ELSE [ envelope EXCEPT !.header.messageId = "" ]

\* the last request handled as the first request of a fresh process at time 0
HandledAlone ==
    lambda_handler(inRequest, inConnected, outcome # "ValidationError", 0, 0)

\* C16: after any sequence of requests SAMPLE_APPLIANCES is the catalog of
\* the source, and the outcome of the last request, its response (message id
\* and timestamp aside) and the command sent for it are those of the same
\* request with the same connected flag handled with no request before it;
\* the endpoints of a v3 discovery have 3, 8 and 7 capabilities however many
\* discoveries came before.
C16_NoStateAcrossRequests ==
    /\ SAMPLE_APPLIANCES = SampleAppliancesLiteral
    /\ Invoked =>
        /\ outcome = HandledAlone.outcome
        /\ outSent = HandledAlone.sent
        /\ Has(outResponse) = Has(HandledAlone.response)
        /\ Has(outResponse) =>
               Scrub(Get(outResponse)) = Scrub(Get(HandledAlone.response))
    /\ (route = "handle_discovery_v3" /\ Responded) =>
        LET endpoints == Get(outResponse).event.payload.endpoints
        IN  /\ Len(endpoints[1].capabilities) = 3
            /\ Len(endpoints[2].capabilities) = 8
            /\ Len(endpoints[3].capabilities) = 7

\* a v3 discovery answered as the second request, after an answered first
\* one, the light still with its eight capabilities
C16_Witness ==
    /\ clock = 2
    /\ Len(issued) = 2
    /\ issued[1] = "uuid4-1"
    /\ route = "handle_discovery_v3"
    /\ Responded
    /\ MessageId(Get(outResponse)) = "uuid4-2"
    /\ Len(Get(outResponse).event.payload.endpoints[2].capabilities) = 8

\* the last request is a v3 power directive that reached the connected check
IsPowerDirective ==
    /\ route = "handle_non_discovery_v3"
    /\ inRequest.dNamespace = Some("Alexa.PowerController")
    /\ Has(inRequest.dName)
    /\ Has(inRequest.dToken)

\* C17: a v3 Alexa.PowerController directive of any name but TurnOn sends a
\* connected device the off encoding (tag 66 for a "Smart Switch", state 0
\* otherwise), and the response reports powerState "OFF"; it reports "ON"
\* for TurnOn and for no other name.
C17_AnythingButTurnOnIsTurnOff ==
    IsPowerDirective =>
        /\ (inConnected /\ inRequest.dName # Some("TurnOn")) =>
            /\ Len(outSent) = 1
            /\ IF Get(resolved).particle_model = "Smart Switch"
               THEN outSent[1].json.cmd = 8 /\ outSent[1].json.tag = 66
               ELSE outSent[1].json.cmd = 1 /\ outSent[1].json.state = 0
        /\ Responded =>
            LET reported == Get(outResponse).context.properties[1]
            IN  /\ reported.namespace = "Alexa.PowerController"
                /\ reported.name = "powerState"
                /\ reported.value \in { "ON", "OFF" }
                /\ reported.value = "ON" <=> inRequest.dName = Some("TurnOn")

\* a ReportState in the power namespace reached the connected switch as tag
\* 66 and was answered with powerState OFF
C17_Witness ==
    /\ IsPowerDirective
    /\ inRequest.dName = Some("ReportState")
    /\ inRequest.dEndpointId = Some(SwitchId)
    /\ inConnected
    /\ Len(outSent) = 1
    /\ outSent[1].json.tag = 66
    /\ Responded
    /\ Get(outResponse).context.properties[1].value = "OFF"

====
